---- MODULE Spec2Model ----
(***************************************************************************)
(* Device inventory tool (task-3/inventory_tool.py).                       *)
(*                                                                         *)
(* A Python str is a sequence of character tokens.  The csv dialect only   *)
(* distinguishes the delimiter, the quote character, carriage return and   *)
(* line feed; every other character is ordinary, and each of the five      *)
(* column names is written as one ordinary token.                          *)
(* A Python dict is a sequence of <<key, value>> pairs with distinct keys, *)
(* in insertion order.                                                     *)
(***************************************************************************)
EXTENDS Integers, Sequences, FiniteSets, TLC

----------------------------------------------------------------------------
(* Characters *)

COMMA == "COMMA"
QUOTE == "QUOTE"
CR    == "CR"
LF    == "LF"
\* end-of-line marker the csv reader feeds to its parser after each line
EOL   == "EOL"

\* the key and the value csv.DictReader uses for surplus / missing fields
NoneKey == <<"None">>
NoneVal == <<"None">>

NameKey == <<"Name">>
IpKey   == <<"Management IP">>
UserKey == <<"Username">>
PassKey == <<"Password">>
DescKey == <<"Description">>

\* save_inventory: fieldnames
FIELDNAMES == <<NameKey, IpKey, UserKey, PassKey, DescKey>>

Range(s) == {s[i] : i \in 1..Len(s)}

----------------------------------------------------------------------------
(* dict *)

Keys(d) == {d[i][1] : i \in 1..Len(d)}

HasKey(d, k) == k \in Keys(d)

\* d[k]
Get(d, k) == d[CHOOSE i \in 1..Len(d) : d[i][1] = k][2]

\* d.get(k, default)
GetOr(d, k, default) == IF HasKey(d, k) THEN Get(d, k) ELSE default

\* d[k] = v : an existing key keeps its position, a new key goes last
DictSet(d, k, v) ==
    IF HasKey(d, k)
    THEN [i \in 1..Len(d) |-> IF d[i][1] = k THEN <<k, v>> ELSE d[i]]
    ELSE Append(d, <<k, v>>)

\* d1 == d2 : same keys with equal values, whatever the insertion order
DictEq(d1, d2) ==
    /\ Keys(d1) = Keys(d2)
    /\ \A k \in Keys(d1) : Get(d1, k) = Get(d2, k)

\* list equality of two inventories
InvEq(a, b) ==
    /\ Len(a) = Len(b)
    /\ \A i \in 1..Len(a) : DictEq(a[i], b[i])

\* dict(zip(keys, vals))
RECURSIVE DictZip(_, _)
DictZip(keys, vals) ==
    IF keys = <<>> \/ vals = <<>> THEN <<>>
    ELSE LET n == IF Len(keys) < Len(vals) THEN Len(keys) ELSE Len(vals)
         IN  DictSet(DictZip(SubSeq(keys, 1, n - 1), SubSeq(vals, 1, n - 1)),
                     keys[n], vals[n])

----------------------------------------------------------------------------
(* csv.writer, excel dialect: delimiter ",", quotechar '"', doublequote,    *)
(* QUOTE_MINIMAL, lineterminator "\r\n"                                     *)

NeedsQuote(s) == \E i \in 1..Len(s) : s[i] \in {COMMA, QUOTE, CR, LF}

RECURSIVE DoubleQuotes(_)
DoubleQuotes(s) ==
    IF s = <<>> THEN <<>>
    ELSE (IF Head(s) = QUOTE THEN <<QUOTE, QUOTE>> ELSE <<Head(s)>>)
         \o DoubleQuotes(Tail(s))

\* None is written as the empty string
FieldText(v) == IF v = NoneVal THEN <<>> ELSE v

EncodeField(v) ==
    LET s == FieldText(v)
    IN  IF NeedsQuote(s) THEN <<QUOTE>> \o DoubleQuotes(s) \o <<QUOTE>> ELSE s

RECURSIVE JoinFields(_)
JoinFields(fields) ==
    IF fields = <<>> THEN <<>>
    ELSE IF Len(fields) = 1 THEN EncodeField(fields[1])
    ELSE EncodeField(Head(fields)) \o <<COMMA>> \o JoinFields(Tail(fields))

\* writer.writerow(fields)
WriteRow(fields) ==
    (IF Len(fields) = 1 /\ FieldText(fields[1]) = <<>>
     THEN <<QUOTE, QUOTE>>
     ELSE JoinFields(fields)) \o <<CR, LF>>

----------------------------------------------------------------------------
(* csv.DictWriter(file, fieldnames), extrasaction "raise", restval ""       *)

\* keys of the row that are not columns: they make writerow raise ValueError
WrongFields(rowdict) == Keys(rowdict) \ Range(FIELDNAMES)

\* variant: the values of the keys the row has, missing columns closed up
DictToList_DropMissing(rowdict) ==
    LET present == SelectSeq(FIELDNAMES, LAMBDA k : HasKey(rowdict, k))
    IN  [j \in 1..Len(present) |-> Get(rowdict, present[j])]

\* variant: the values in the row's own key order
DictToList_InsertionOrder(rowdict) ==
    [j \in 1..Len(rowdict) |-> rowdict[j][2]]

\* DictWriter._dict_to_list
DictToList(rowdict) ==
    [j \in 1..Len(FIELDNAMES) |-> GetOr(rowdict, FIELDNAMES[j], <<>>)]

\* DictWriter.writeheader
HeaderText == WriteRow(FIELDNAMES)

\* DictWriter.writerow
RowText(rowdict) == WriteRow(DictToList(rowdict))

----------------------------------------------------------------------------
(* open(filename, "r"): text mode with universal newlines                   *)

\* "\r\n" and a lone "\r" are both read as "\n"
RECURSIVE TranslateNewlines(_)
TranslateNewlines(text) ==
    IF text = <<>> THEN <<>>
    ELSE IF Head(text) = CR
         THEN IF Len(text) >= 2 /\ text[2] = LF
              THEN <<LF>> \o TranslateNewlines(Tail(Tail(text)))
              ELSE <<LF>> \o TranslateNewlines(Tail(text))
         ELSE <<Head(text)>> \o TranslateNewlines(Tail(text))

\* the characters the csv parser is fed when iterating the file by lines:
\* every line (a line ends after "\n", after "\r\n" or after a lone "\r",
\* and at the end of the data) is followed by the end-of-line marker
RECURSIVE LineStream(_)
LineStream(text) ==
    IF text = <<>> THEN <<>>
    ELSE IF Head(text) = LF THEN <<LF, EOL>> \o LineStream(Tail(text))
    ELSE IF Head(text) = CR
         THEN IF Len(text) >= 2 /\ text[2] = LF
              THEN <<CR, LF, EOL>> \o LineStream(Tail(Tail(text)))
              ELSE <<CR, EOL>> \o LineStream(Tail(text))
    ELSE IF Len(text) = 1 THEN <<Head(text), EOL>>
    ELSE <<Head(text)>> \o LineStream(Tail(text))

----------------------------------------------------------------------------
(* csv.reader, excel dialect, strict = False                                *)

ParseStart == [st |-> "START_RECORD", field |-> <<>>, fields |-> <<>>, rows |-> <<>>]

SaveField(s) == [s EXCEPT !.fields = Append(s.fields, s.field), !.field = <<>>]

AddChar(s, c) == [s EXCEPT !.field = Append(s.field, c)]

AfterNewline(c) == IF c = EOL THEN "START_RECORD" ELSE "EAT_CRNL"

StartField(s, c) ==
    IF c \in {LF, CR, EOL} THEN [SaveField(s) EXCEPT !.st = AfterNewline(c)]
    ELSE IF c = QUOTE THEN [s EXCEPT !.st = "IN_QUOTED_FIELD"]
    ELSE IF c = COMMA THEN [SaveField(s) EXCEPT !.st = "START_FIELD"]
    ELSE [AddChar(s, c) EXCEPT !.st = "IN_FIELD"]

\* parse_process_char
ParseChar(s, c) ==
    CASE s.st = "START_RECORD" ->
            IF c = EOL THEN s
            ELSE IF c \in {LF, CR} THEN [s EXCEPT !.st = "EAT_CRNL"]
            ELSE StartField(s, c)
      [] s.st = "START_FIELD" -> StartField(s, c)
      [] s.st = "IN_FIELD" ->
            IF c \in {LF, CR, EOL} THEN [SaveField(s) EXCEPT !.st = AfterNewline(c)]
            ELSE IF c = COMMA THEN [SaveField(s) EXCEPT !.st = "START_FIELD"]
            ELSE AddChar(s, c)
      [] s.st = "IN_QUOTED_FIELD" ->
            IF c = EOL THEN s
            ELSE IF c = QUOTE THEN [s EXCEPT !.st = "QUOTE_IN_QUOTED_FIELD"]
            ELSE AddChar(s, c)
      [] s.st = "QUOTE_IN_QUOTED_FIELD" ->
            IF c = QUOTE THEN [AddChar(s, c) EXCEPT !.st = "IN_QUOTED_FIELD"]
            ELSE IF c = COMMA THEN [SaveField(s) EXCEPT !.st = "START_FIELD"]
            ELSE IF c \in {LF, CR, EOL}
                 THEN [SaveField(s) EXCEPT !.st = AfterNewline(c)]
            ELSE [AddChar(s, c) EXCEPT !.st = "IN_FIELD"]
      [] s.st = "EAT_CRNL" ->
            IF c \in {LF, CR} THEN s
            ELSE IF c = EOL THEN [s EXCEPT !.st = "START_RECORD"]
            ELSE [s EXCEPT !.st = "ERROR"]
      [] OTHER -> s

\* Reader.__next__: a row is complete when a line ends in START_RECORD
EmitRow(s) ==
    [s EXCEPT !.rows = Append(s.rows, s.fields), !.fields = <<>>]

RECURSIVE ParseStream(_, _)
ParseStream(s, stream) ==
    IF s.st = "ERROR" THEN s.rows
    ELSE IF stream = <<>>
    THEN \* input exhausted inside a record: the pending field is kept
         IF s.st = "IN_QUOTED_FIELD" \/ (s.st # "START_RECORD" /\ s.field # <<>>)
         THEN EmitRow(SaveField(s)).rows
         ELSE s.rows
    ELSE LET c == Head(stream)
             t == ParseChar(s, c)
         IN  ParseStream(IF c = EOL /\ t.st = "START_RECORD" THEN EmitRow(t) ELSE t,
                         Tail(stream))

\* list(csv.reader(lines)) : the rows, each a list of fields
CsvRows(text) == ParseStream(ParseStart, LineStream(text))

----------------------------------------------------------------------------
(* csv.DictReader, restkey None, restval None                               *)

\* one data row as a dict keyed by the header row
RowDict(fieldnames, row) ==
    LET d  == DictZip(fieldnames, row)
        lf == Len(fieldnames)
        lr == Len(row)
        RECURSIVE Fill(_, _)
        Fill(dd, j) == IF j > lf THEN dd
                       ELSE Fill(DictSet(dd, fieldnames[j], NoneVal), j + 1)
    IN  IF lf < lr THEN DictSet(d, NoneKey, SubSeq(row, lf + 1, lr))
        ELSE IF lf > lr THEN Fill(d, lr + 1)
        ELSE d

\* the first row is the header; rows without any field are skipped
DictRows(rows) ==
    IF rows = <<>> THEN <<>>
    ELSE LET data == SelectSeq(Tail(rows), LAMBDA r : r # <<>>)
         IN  [i \in 1..Len(data) |-> RowDict(Head(rows), data[i])]

\* read_inventory(filename) on an existing file with this content
ReadCSV(text) == DictRows(CsvRows(TranslateNewlines(text)))

\* save_inventory(filename, inventory) when no row raises
RECURSIVE RowsText(_)
RowsText(inventory) ==
    IF inventory = <<>> THEN <<>>
    ELSE RowText(Head(inventory)) \o RowsText(Tail(inventory))

SaveCSV(inventory) == HeaderText \o RowsText(inventory)

----------------------------------------------------------------------------
(* The functions of the module                                              *)

\* get_device_data: index of the first record whose test does not fall
\* through; 0 when the loop runs off the end of the list
RECURSIVE FirstStop(_, _, _)
FirstStop(inventory, device_name, i) ==
    IF i > Len(inventory) THEN 0
    ELSE IF ~HasKey(inventory[i], NameKey) THEN i
    ELSE IF Get(inventory[i], NameKey) = device_name THEN i
    ELSE FirstStop(inventory, device_name, i + 1)

\* variant: the last record of that name
get_device_data_last(inventory, device_name) ==
    LET M == {i \in 1..Len(inventory) :
                 HasKey(inventory[i], NameKey) /\ Get(inventory[i], NameKey) = device_name}
        m == CHOOSE i \in M : \A j \in M : j <= i
    IN  IF M = {}
        THEN [raised |-> "", found |-> FALSE, index |-> 0, device |-> <<>>,
              inventory |-> inventory]
        ELSE [raised |-> "", found |-> TRUE, index |-> m, device |-> inventory[m],
              inventory |-> inventory]

\* get_device_data(inventory, device_name): the record returned, None, or
\* the KeyError of device["Name"] on a record without that key, and the
\* caller's list as the call leaves it
get_device_data(inventory, device_name) ==
    LET i == FirstStop(inventory, device_name, 1)
    IN  IF i = 0
        THEN [raised |-> "", found |-> FALSE, index |-> 0, device |-> <<>>,
              inventory |-> inventory]
        ELSE IF ~HasKey(inventory[i], NameKey)
             THEN [raised |-> "KeyError", found |-> FALSE, index |-> 0, device |-> <<>>,
                   inventory |-> inventory]
        ELSE [raised |-> "", found |-> TRUE, index |-> i, device |-> inventory[i],
              inventory |-> inventory]

\* variant: a record whose Name is already in the list is not added
add_device_unique(inventory, new_device) ==
    IF \E i \in 1..Len(inventory) :
          /\ HasKey(inventory[i], NameKey) /\ HasKey(new_device, NameKey)
          /\ Get(inventory[i], NameKey) = Get(new_device, NameKey)
    THEN inventory
    ELSE Append(inventory, new_device)

\* add_device(inventory, new_device): the list after inventory.append
add_device(inventory, new_device) == Append(inventory, new_device)

\* index of the first row writerows cannot map to the columns, 0 if none
RECURSIVE FirstBadRow(_, _)
FirstBadRow(inventory, i) ==
    IF i > Len(inventory) THEN 0
    ELSE IF WrongFields(inventory[i]) # {} THEN i
    ELSE FirstBadRow(inventory, i + 1)

\* save_inventory(filename, inventory) run to its end: what the file holds
\* when the with block is left, and the exception that left it
save_inventory(inventory) ==
    LET bad == FirstBadRow(inventory, 1)
    IN  IF bad = 0 THEN [raised |-> "", text |-> SaveCSV(inventory)]
        ELSE [raised |-> "ValueError",
              text |-> SaveCSV(SubSeq(inventory, 1, bad - 1))]

----------------------------------------------------------------------------
(* Inputs                                                                   *)

\* largest number of add_device calls a library caller makes
MaxAdds == 2

\* the dict literal of the add command: keys in the order of the flags
NewDevice(name, ip, user, password, desc) ==
    << <<NameKey, name>>, <<IpKey, ip>>, <<UserKey, user>>,
       <<PassKey, password>>, <<DescKey, desc>> >>

Router1 == NewDevice(<<"Router1">>, <<"10.0.0.1">>, <<"admin">>, <<"pass123">>,
                     <<"Core", " ", "router">>)
Switch1 == NewDevice(<<"Switch1">>, <<"10.0.0.2">>, <<"admin">>, <<"pass456">>,
                     <<"Access", " ", "switch">>)
\* a second Router1, its keys inserted in another order
Router1Dup ==
    << <<DescKey, <<"Spare">>>>, <<PassKey, <<"pass789">>>>, <<NameKey, <<"Router1">>>>,
       <<UserKey, <<"admin">>>>, <<IpKey, <<"10.0.0.9">>>> >>
\* names differing from Router1 in case or by a trailing blank only,
\* descriptions with the characters the csv dialect treats specially
RouterLower == NewDevice(<<"router1">>, <<"10.0.0.3">>, <<"admin">>, <<>>,
                         <<"a", COMMA, QUOTE, "b", LF, "c">>)
RouterBlank == NewDevice(<<"Router1", " ">>, <<"10.0.0.4">>, <<"admin">>, <<"pw">>,
                         <<"a", CR, "b">>)
\* a record without the Password key
NoPassword ==
    << <<NameKey, <<"Edge1">>>>, <<IpKey, <<"10.0.0.5">>>>, <<UserKey, <<"admin">>>>,
       <<DescKey, <<"Edge">>>> >>
\* a record with a key that is not a column
WithLocation == Append(NewDevice(<<"Fw1">>, <<"10.0.0.6">>, <<"admin">>, <<"pw">>, <<"Firewall">>),
                       <<<<"Location">>, <<"Lab">>>>)

\* records a library caller passes to add_device
LibDevices == {Switch1, Router1Dup, RouterLower, RouterBlank, NoPassword, WithLocation}

\* names a library caller looks up
Queries == {<<"Router1">>, <<"router1">>, <<"Edge1">>, <<"Nowhere">>}

\* records the add command is run with
CliDevices == {Switch1, NewDevice(<<"Router1">>, <<"10.0.0.7">>, <<"root">>, <<"pw">>,
                                  <<"a", CR, "b">>)}

\* the ways the program is invoked
ArgKinds == {"none", "add", "add_missing_flag", "unknown"}

Existing(text) == [exists |-> TRUE, text |-> text]
NoFile == [exists |-> FALSE, text |-> <<>>]

\* inventory.csv as the example of the specification has it
FileRouter1 == Existing(SaveCSV(<<Router1>>))
\* written by hand with "\n" line ends: two devices of the same name and
\* a blank line
FileByHand ==
    Existing(<<"Name", COMMA, "Management IP", COMMA, "Username", COMMA,
               "Password", COMMA, "Description", LF,
               "Router1", COMMA, "10.0.0.1", COMMA, "admin", COMMA, "pass123", COMMA, "Core", LF,
               LF,
               "Router1", COMMA, "10.0.0.8", COMMA, "admin", COMMA, QUOTE, "p", QUOTE, QUOTE, "w", QUOTE,
               COMMA, "Backup", LF>>)
\* a sixth column
FileSixColumns ==
    Existing(WriteRow(Append(FIELDNAMES, <<"Location">>))
             \o WriteRow(<<<<"Router1">>, <<"10.0.0.1">>, <<"admin">>, <<"pass123">>, <<"Core">>, <<"Lab">>>>))
\* the second data row has a field too many
FileLongRow ==
    Existing(SaveCSV(<<Router1>>)
             \o WriteRow(<<<<"Switch9">>, <<"10.0.0.9">>, <<"admin">>, <<"pw">>, <<"Old">>, <<"x">>>>))
\* no Password column, and a data row that stops early
FileNoPassword ==
    Existing(WriteRow(<<NameKey, IpKey, UserKey, DescKey>>)
             \o WriteRow(<<<<"Router1">>, <<"10.0.0.1">>, <<"admin">>, <<"Core">>>>)
             \o WriteRow(<<<<"Router2">>, <<"10.0.0.2">>>>))
\* an empty file
FileEmpty == Existing(<<>>)

InitFiles == {NoFile, FileRouter1, FileByHand, FileSixColumns, FileLongRow,
              FileNoPassword, FileEmpty}

----------------------------------------------------------------------------
(* State                                                                    *)

VARIABLES
    file,         \* inventory.csv: whether it exists and its content
    file0,        \* inventory.csv as it was at the start
    inventory,    \* library caller: the list it holds
    ret,          \* library caller: the last call, what it raised and returned
    hist,         \* library caller: the last add_device and the calls since
    nadds,        \* library caller: number of add_device calls made
    procs,        \* the invocations of the program
    pc,           \* per invocation: position in __main__
    args,         \* per invocation: the parsed command line
    inv,          \* per invocation: inventory_data
    wbuf,         \* per invocation: data written to the open file, not yet flushed
    idx,          \* per invocation: next row of writerows
    out,          \* per invocation: what it printed to standard output
    exitcode,     \* per invocation: exit status, -1 while running
    err,          \* per invocation: the error that ended it
    opens,        \* per invocation: times it opened the file for writing
    order         \* per invocation: what the others had done at its load and open

libvars == <<inventory, ret, hist, nadds>>
clivars == <<procs, pc, args, inv, wbuf, idx, out, exitcode, err, opens, order>>
vars == <<file, file0, inventory, ret, hist, nadds,
          procs, pc, args, inv, wbuf, idx, out, exitcode, err, opens, order>>

NoRet == [op |-> "", raised |-> "", found |-> FALSE, index |-> 0, device |-> <<>>,
          query |-> <<>>, before |-> <<>>]
NoHist == [stage |-> "", before |-> <<>>, added |-> <<>>]

----------------------------------------------------------------------------
(* A program that imports the module and calls its functions on one path    *)

\* inventory = read_inventory(path)
ReadInventory ==
    /\ IF file.exists
       THEN /\ inventory' = ReadCSV(file.text)
            /\ ret' = [NoRet EXCEPT !.op = "read"]
            /\ hist' = IF hist.stage = "saved" THEN [hist EXCEPT !.stage = "reread"]
                       ELSE NoHist
       ELSE /\ ret' = [NoRet EXCEPT !.op = "read", !.raised = "FileNotFoundError"]
            /\ UNCHANGED <<inventory, hist>>
    /\ UNCHANGED <<file, file0, nadds, clivars>>

\* get_device_data(inventory, device_name)
GetDeviceData(device_name) ==
    LET r == get_device_data(inventory, device_name)
    IN  /\ ret' = [op |-> "get", raised |-> r.raised, found |-> r.found, index |-> r.index,
                   device |-> r.device, query |-> device_name, before |-> inventory]
        /\ inventory' = r.inventory
        /\ UNCHANGED <<file, file0, hist, nadds, clivars>>

\* add_device(inventory, new_device)
AddDevice(new_device) ==
    /\ nadds < MaxAdds
    /\ nadds' = nadds + 1
    /\ inventory' = add_device(inventory, new_device)
    /\ ret' = [NoRet EXCEPT !.op = "add"]
    /\ hist' = [stage |-> "added", before |-> inventory, added |-> new_device]
    /\ UNCHANGED <<file, file0, clivars>>

\* save_inventory(path, inventory)
SaveInventory ==
    LET r == save_inventory(inventory)
    IN  /\ file' = Existing(r.text)
        /\ ret' = [NoRet EXCEPT !.op = "save", !.raised = r.raised]
        /\ hist' = IF hist.stage = "added" /\ r.raised = ""
                   THEN [hist EXCEPT !.stage = "saved"]
                   ELSE NoHist
        /\ UNCHANGED <<file0, inventory, nadds, clivars>>

InitLib ==
    /\ file \in InitFiles
    /\ file0 = file
    /\ inventory = <<>>
    /\ ret = NoRet
    /\ hist = NoHist
    /\ nadds = 0
    /\ procs = {}
    /\ pc = <<>> /\ args = <<>> /\ inv = <<>> /\ wbuf = <<>> /\ idx = <<>>
    /\ out = <<>> /\ exitcode = <<>> /\ err = <<>> /\ opens = <<>> /\ order = <<>>

NextLib ==
    \/ ReadInventory
    \/ \E q \in Queries : GetDeviceData(q)
    \/ \E d \in LibDevices : AddDevice(d)
    \/ SaveInventory

SpecLib == InitLib /\ [][NextLib]_vars

----------------------------------------------------------------------------
(* The program run from the command line (__main__)                         *)

NoOut == [msg |-> "", data |-> <<>>]

\* the file is open for writing between open() and the end of the with block
WriteOpen(p) == pc[p] \in {"save_header", "save_rows"}

\* the invocation has left the with block of save_inventory
HasClosed(p) == opens[p] > 0 /\ ~WriteOpen(p)

\* open(filename, "w"): the file is created or cut to length zero
Truncated == Existing(<<>>)

\* closing the file writes the buffered data at the position of this
\* open file, which is 0; what lies beyond it stays
Flush(f, buf) == Existing(buf \o SubSeq(f.text, Len(buf) + 1, Len(f.text)))

\* the process ends with this exit status and error
Exit(p, code, error) ==
    /\ pc' = [pc EXCEPT ![p] = "done"]
    /\ exitcode' = [exitcode EXCEPT ![p] = code]
    /\ err' = [err EXCEPT ![p] = error]

\* variant: a missing file is read as an empty inventory
Load_MissingIsEmpty(p) ==
    /\ pc[p] = "load"
    /\ inv' = [inv EXCEPT ![p] = IF file.exists THEN ReadCSV(file.text) ELSE <<>>]
    /\ order' = [order EXCEPT ![p].loaded = file.exists,
                              ![p].sawInitial = \A q \in procs : opens[q] = 0]
    /\ pc' = [pc EXCEPT ![p] = "parse"]
    /\ UNCHANGED <<file, file0, libvars, procs, args, wbuf, idx, out, opens, exitcode, err>>

\* inventory_data = read_inventory("inventory.csv")
Load(p) ==
    /\ pc[p] = "load"
    /\ IF file.exists
       THEN /\ inv' = [inv EXCEPT ![p] = ReadCSV(file.text)]
            /\ order' = [order EXCEPT ![p].loaded = TRUE,
                                      ![p].sawInitial = \A q \in procs : opens[q] = 0]
            /\ pc' = [pc EXCEPT ![p] = "parse"]
            /\ UNCHANGED <<exitcode, err>>
       ELSE /\ Exit(p, 1, "FileNotFoundError")
            /\ UNCHANGED <<inv, order>>
    /\ UNCHANGED <<file, file0, libvars, procs, args, wbuf, idx, out, opens>>

\* args = parser.parse_args()
Parse(p) ==
    /\ pc[p] = "parse"
    /\ IF args[p].kind \in {"add_missing_flag", "unknown"}
       THEN Exit(p, 2, "usage")
       ELSE /\ pc' = [pc EXCEPT ![p] = "command"]
            /\ UNCHANGED <<exitcode, err>>
    /\ UNCHANGED <<file, file0, libvars, procs, args, inv, wbuf, idx, out, opens, order>>

\* variant: without sys.exit(0) the run goes on to the save
PrintInventory_NoExit(p) ==
    /\ pc[p] = "command"
    /\ args[p].kind = "none"
    /\ out' = [out EXCEPT ![p] = [msg |-> "inventory", data |-> inv[p]]]
    /\ pc' = [pc EXCEPT ![p] = "save_open"]
    /\ UNCHANGED <<file, file0, libvars, procs, args, inv, wbuf, idx, opens, order,
                   exitcode, err>>

\* if args.command is None: print(inventory_data); sys.exit(0)
PrintInventory(p) ==
    /\ pc[p] = "command"
    /\ args[p].kind = "none"
    /\ out' = [out EXCEPT ![p] = [msg |-> "inventory", data |-> inv[p]]]
    /\ Exit(p, 0, "")
    /\ UNCHANGED <<file, file0, libvars, procs, args, inv, wbuf, idx, opens, order>>

\* if args.command == "add": new_device = {...}; add_device(inventory_data, new_device)
Add(p) ==
    /\ pc[p] = "command"
    /\ args[p].kind = "add"
    /\ inv' = [inv EXCEPT ![p] = add_device(inv[p], args[p].device)]
    /\ pc' = [pc EXCEPT ![p] = "save_open"]
    /\ UNCHANGED <<file, file0, libvars, procs, args, wbuf, idx, out, exitcode, err, opens, order>>

\* variant: the file is opened without cutting it to length zero
SaveOpen_KeepContent(p) ==
    /\ pc[p] = "save_open"
    /\ file' = Existing(file.text)
    /\ wbuf' = [wbuf EXCEPT ![p] = <<>>]
    /\ opens' = [opens EXCEPT ![p] = @ + 1]
    /\ order' = [order EXCEPT ![p].closedAtOpen = {q \in procs : HasClosed(q)}]
    /\ pc' = [pc EXCEPT ![p] = "save_header"]
    /\ UNCHANGED <<file0, libvars, procs, args, inv, idx, out, exitcode, err>>

\* save_inventory: with open(filename, "w", newline="") as file
SaveOpen(p) ==
    /\ pc[p] = "save_open"
    /\ file' = Truncated
    /\ wbuf' = [wbuf EXCEPT ![p] = <<>>]
    /\ opens' = [opens EXCEPT ![p] = @ + 1]
    /\ order' = [order EXCEPT ![p].closedAtOpen = {q \in procs : HasClosed(q)}]
    /\ pc' = [pc EXCEPT ![p] = "save_header"]
    /\ UNCHANGED <<file0, libvars, procs, args, inv, idx, out, exitcode, err>>

\* save_inventory: writer.writeheader()
SaveHeader(p) ==
    /\ pc[p] = "save_header"
    /\ wbuf' = [wbuf EXCEPT ![p] = @ \o HeaderText]
    /\ idx' = [idx EXCEPT ![p] = 1]
    /\ pc' = [pc EXCEPT ![p] = "save_rows"]
    /\ UNCHANGED <<file, file0, libvars, procs, args, inv, out, exitcode, err, opens, order>>

\* variant: a row that cannot be mapped to the columns is passed over
SaveRow_SkipBadRow(p) ==
    /\ pc[p] = "save_rows"
    /\ idx[p] <= Len(inv[p])
    /\ wbuf' = [wbuf EXCEPT ![p] = IF WrongFields(inv[p][idx[p]]) # {} THEN @
                                   ELSE @ \o RowText(inv[p][idx[p]])]
    /\ idx' = [idx EXCEPT ![p] = @ + 1]
    /\ UNCHANGED <<file, pc, exitcode, err, file0, libvars, procs, args, inv, out, opens, order>>

\* save_inventory: writer.writerows(inventory), one row; a row with a key
\* that is not a column raises ValueError, which leaves the with block
SaveRow(p) ==
    /\ pc[p] = "save_rows"
    /\ idx[p] <= Len(inv[p])
    /\ IF WrongFields(inv[p][idx[p]]) # {}
       THEN /\ file' = Flush(file, wbuf[p])
            /\ Exit(p, 1, "ValueError")
            /\ UNCHANGED <<wbuf, idx>>
       ELSE /\ wbuf' = [wbuf EXCEPT ![p] = @ \o RowText(inv[p][idx[p]])]
            /\ idx' = [idx EXCEPT ![p] = @ + 1]
            /\ UNCHANGED <<file, pc, exitcode, err>>
    /\ UNCHANGED <<file0, libvars, procs, args, inv, out, opens, order>>

\* save_inventory: end of the with block, the file is closed
SaveClose(p) ==
    /\ pc[p] = "save_rows"
    /\ idx[p] > Len(inv[p])
    /\ file' = Flush(file, wbuf[p])
    /\ pc' = [pc EXCEPT ![p] = "confirm"]
    /\ UNCHANGED <<file0, libvars, procs, args, inv, wbuf, idx, out, exitcode, err, opens, order>>

\* print(f"Device '{args.name}' added and saved!")
Confirm(p) ==
    /\ pc[p] = "confirm"
    /\ out' = [out EXCEPT ![p] = [msg |-> "added and saved", data |-> Get(args[p].device, NameKey)]]
    /\ Exit(p, 0, "")
    /\ UNCHANGED <<file, file0, libvars, procs, args, inv, wbuf, idx, opens, order>>

\* the process is stopped from outside: a KeyboardInterrupt unwinds the with
\* block and the buffered data reach the file, a kill loses them
Interrupt(p) ==
    /\ pc[p] # "done"
    /\ \/ file' = file
       \/ WriteOpen(p) /\ file' = Flush(file, wbuf[p])
    /\ Exit(p, 130, "Interrupted")
    /\ UNCHANGED <<file0, libvars, procs, args, inv, wbuf, idx, out, opens, order>>

ArgSets ==
    [kind : ArgKinds \ {"add"}, device : {<<>>}] \cup [kind : {"add"}, device : CliDevices]

InitCli(P) ==
    /\ file \in InitFiles
    /\ file0 = file
    /\ inventory = <<>> /\ ret = NoRet /\ hist = NoHist /\ nadds = 0
    /\ procs = P
    /\ pc = [p \in P |-> "load"]
    /\ args \in [P -> ArgSets]
    /\ inv = [p \in P |-> <<>>]
    /\ wbuf = [p \in P |-> <<>>]
    /\ idx = [p \in P |-> 0]
    /\ out = [p \in P |-> NoOut]
    /\ exitcode = [p \in P |-> -1]
    /\ err = [p \in P |-> ""]
    /\ opens = [p \in P |-> 0]
    /\ order = [p \in P |-> [loaded |-> FALSE, sawInitial |-> FALSE, closedAtOpen |-> {}]]

\* one invocation
Init == InitCli({1})

\* two invocations at the same time
InitTwo == InitCli({1, 2})

Next ==
    \/ \E p \in procs : Load(p)
    \/ \E p \in procs : Parse(p)
    \/ \E p \in procs : PrintInventory(p)
    \/ \E p \in procs : Add(p)
    \/ \E p \in procs : SaveOpen(p)
    \/ \E p \in procs : SaveHeader(p)
    \/ \E p \in procs : SaveRow(p)
    \/ \E p \in procs : SaveClose(p)
    \/ \E p \in procs : Confirm(p)
    \/ \E p \in procs : Interrupt(p)

Spec == Init /\ [][Next]_vars

SpecTwo == InitTwo /\ [][Next]_vars

----------------------------------------------------------------------------
(* Properties                                                               *)

Columns == Range(FIELDNAMES)

\* the fields of a record's row, column by column; a missing or None value
\* is the empty string
Cells(d) ==
    [j \in 1..Len(FIELDNAMES) |->
        IF HasKey(d, FIELDNAMES[j]) /\ Get(d, FIELDNAMES[j]) # NoneVal
        THEN Get(d, FIELDNAMES[j]) ELSE <<>>]

\* the rows of a file holding the header and one row per record
ExpectedRows(records) ==
    [i \in 1..(Len(records) + 1) |-> IF i = 1 THEN FIELDNAMES ELSE Cells(records[i - 1])]

\* records with exactly the five keys, each holding a string
FiveFields(d) == Keys(d) = Columns /\ \A k \in Columns : Get(d, k) # NoneVal
WellFormed(records) == \A i \in 1..Len(records) : FiveFields(records[i])

\* C1: for a well-formed inventory and a new record with exactly the five
\* keys, add_device, save_inventory, then read_inventory on the same path
\* return the original records in order followed by the new record.
C1_RoundTrip ==
    (/\ hist.stage = "reread"
     /\ nadds = 1
     /\ file0.exists /\ hist.before = ReadCSV(file0.text)
     /\ Len(hist.before) >= 1 /\ WellFormed(hist.before)
     /\ FiveFields(hist.added))
    => InvEq(inventory, Append(hist.before, hist.added))

\* C2 as stated: save_inventory given a record that lacks one of the five
\* keys fails with ValueError and writes no row for that record.
C2_MissingKeyFails ==
    \A i \in 1..Len(inventory) :
        (ret.op = "save" /\ ~(Columns \subseteq Keys(inventory[i])))
        => (ret.raised = "ValueError" /\ Len(CsvRows(file.text)) <= i)

\* C2 amended: save_inventory fails with ValueError exactly when a record
\* has a key outside the five columns; a record that only lacks keys is
\* written as a row of five fields, empty under each missing key and the
\* record's values (None as the empty string) under the other columns.
C2_MissingKeyBlank ==
    ret.op = "save" =>
        /\ ret.raised = "ValueError"
               <=> \E i \in 1..Len(inventory) : ~(Keys(inventory[i]) \subseteq Columns)
        /\ ret.raised \in {"", "ValueError"}
        /\ \A i \in 1..Len(inventory) :
              (/\ \A h \in 1..i : Keys(inventory[h]) \subseteq Columns
               /\ ~(Columns \subseteq Keys(inventory[i])))
              => LET row == CsvRows(file.text)[i + 1]
                 IN  /\ Len(row) = Len(FIELDNAMES)
                     /\ \A j \in 1..Len(FIELDNAMES) :
                           IF HasKey(inventory[i], FIELDNAMES[j])
                           THEN row[j] = Cells(inventory[i])[j]
                           ELSE row[j] = <<>>

C2_Witness ==
    /\ ret.op = "save"
    /\ ret.raised = ""
    /\ \E i \in 1..Len(inventory) :
          /\ ~HasKey(inventory[i], PassKey)
          /\ HasKey(inventory[i], DescKey)
          /\ CsvRows(file.text)[i + 1][4] = <<>>
          /\ CsvRows(file.text)[i + 1][5] = Get(inventory[i], DescKey)

\* C7: get_device_data returns the record at the smallest index whose Name
\* equals the query exactly, None exactly when no Name equals it, and leaves
\* the list as it was (for lists whose records all have a Name).
C7_FirstMatch ==
    (ret.op = "get" /\ \A i \in 1..Len(ret.before) : HasKey(ret.before[i], NameKey))
    => LET M == {i \in 1..Len(ret.before) : Get(ret.before[i], NameKey) = ret.query}
       IN  /\ ret.raised = ""
           /\ ret.found <=> M # {}
           /\ ret.found => /\ ret.index \in M
                           /\ \A i \in M : ret.index <= i
                           /\ ret.device = ret.before[ret.index]
           /\ inventory = ret.before

C7_Witness ==
    /\ ret.op = "get"
    /\ ret.found
    /\ \A i \in 1..Len(inventory) : HasKey(inventory[i], NameKey)
    /\ \E i \in 1..Len(inventory) :
          i > ret.index /\ Get(inventory[i], NameKey) = ret.query

\* C9: after a successful save_inventory the file is the header row with
\* the five columns in their fixed order, then one row per record in list
\* order, each value under its own column whatever the key order of the
\* record.
C9_FixedColumns ==
    (ret.op = "save" /\ ret.raised = "")
    => CsvRows(file.text) = ExpectedRows(inventory)

C9_Witness ==
    /\ ret.op = "save"
    /\ ret.raised = ""
    /\ Len(inventory) >= 2
    /\ \E i \in 1..Len(inventory) :
          FiveFields(inventory[i]) /\ inventory[i][1][1] # NameKey

\* C10: add_device makes the list one longer, the new record last and the
\* earlier records where they were, whatever the new record's Name.
C10_Append ==
    ret.op = "add" =>
        /\ ret.raised = ""
        /\ Len(inventory) = Len(hist.before) + 1
        /\ inventory[Len(inventory)] = hist.added
        /\ \A i \in 1..Len(hist.before) : inventory[i] = hist.before[i]

C10_Witness ==
    /\ ret.op = "add"
    /\ Len(inventory) >= 2
    /\ \E i \in 1..(Len(inventory) - 1) :
          /\ HasKey(inventory[i], NameKey)
          /\ Get(inventory[i], NameKey) = Get(inventory[Len(inventory)], NameKey)

----------------------------------------------------------------------------
(* Properties of the command-line program                                   *)

Finished(p) == pc[p] = "done" /\ err[p] # "Interrupted"

\* C3 as stated: an add invocation that lacks a required flag ends with the
\* usage error and a non-zero exit without the Loader having read the file.
C3_UsageBeforeLoad ==
    \A p \in procs :
        (args[p].kind = "add_missing_flag" /\ Finished(p))
        => (err[p] = "usage" /\ exitcode[p] = 2 /\ ~order[p].loaded)

\* C3 amended: an add invocation that lacks a required flag runs the Loader
\* first; with the backing file present it reads the file and then ends
\* with the usage error and exit status 2 before the Mutator, the Persister
\* or any print; with the file missing it ends with the file-access error.
C3_UsageAfterLoad ==
    \A p \in procs :
        args[p].kind = "add_missing_flag" =>
            /\ pc[p] \in {"load", "parse", "done"}
            /\ opens[p] = 0 /\ out[p] = NoOut /\ file = file0
            /\ (pc[p] = "parse" \/ Finished(p)) /\ file0.exists
                  => order[p].loaded /\ inv[p] = ReadCSV(file0.text)
            /\ Finished(p) =>
                  IF file0.exists
                  THEN err[p] = "usage" /\ exitcode[p] = 2
                  ELSE err[p] = "FileNotFoundError" /\ exitcode[p] = 1 /\ ~order[p].loaded

C3_Witness ==
    \E p \in procs :
        /\ args[p].kind = "add_missing_flag" /\ Finished(p)
        /\ err[p] = "usage" /\ order[p].loaded /\ Len(inv[p]) > 0

\* C4: an invocation opens the backing file for writing at most once, and
\* only on the add path after loading and parsing; a run without arguments
\* exits 0, and it, a run with a usage error and a run whose Loader fails
\* leave the file's content unchanged.
C4_WriteOnlyOnAdd ==
    \A p \in procs :
        /\ opens[p] <= 1
        /\ opens[p] = 1 => args[p].kind = "add" /\ order[p].loaded
        /\ (args[p].kind # "add" \/ err[p] \in {"usage", "FileNotFoundError"})
              => opens[p] = 0 /\ file = file0
        /\ (args[p].kind = "none" /\ Finished(p) /\ file0.exists)
              => exitcode[p] = 0 /\ out[p].msg = "inventory"

C4_Witness ==
    \E p \in procs :
        /\ Finished(p) /\ args[p].kind = "add" /\ exitcode[p] = 0
        /\ opens[p] = 1 /\ file # file0

\* C5: on the add path the confirmation is printed only after the Persister
\* has completed; the file then holds every loaded row in its order followed
\* by the new device as the last row; a run whose Persister fails prints no
\* confirmation.
C5_ConfirmAfterSave ==
    \A p \in procs :
        /\ out[p].msg = "added and saved" =>
              /\ pc[p] = "done" /\ HasClosed(p) /\ err[p] = ""
              /\ out[p].data = Get(args[p].device, NameKey)
              /\ CsvRows(file.text)
                    = ExpectedRows(Append(ReadCSV(file0.text), args[p].device))
        /\ pc[p] \in {"save_open", "save_header", "save_rows", "confirm"} =>
              /\ order[p].loaded
              /\ inv[p] = Append(ReadCSV(file0.text), args[p].device)
        /\ err[p] = "ValueError" => out[p] = NoOut /\ exitcode[p] = 1

C5_Witness ==
    \E p \in procs :
        /\ out[p].msg = "added and saved" /\ exitcode[p] = 0
        /\ Len(ReadCSV(file0.text)) >= 2
        /\ Len(CsvRows(file.text)) = Len(ReadCSV(file0.text)) + 2

\* C8: save_inventory does not replace the file in one step.  When a run
\* ends in the Persister without completing it, by the field-mapping error
\* or stopped from outside, the file holds a prefix of the new rows (nothing,
\* the header, the header and some rows), while inventory_data already ends
\* with the appended record; after the field-mapping error the prefix is a
\* strict one.
C8_PartialFile ==
    \A p \in procs :
        (pc[p] = "done" /\ opens[p] = 1 /\ exitcode[p] # 0) =>
            /\ Len(inv[p]) > 0 /\ inv[p][Len(inv[p])] = args[p].device
            /\ \E k \in 0..(Len(inv[p]) + 1) :
                  CsvRows(file.text) = SubSeq(ExpectedRows(inv[p]), 1, k)
            /\ err[p] = "ValueError" =>
                  /\ Len(CsvRows(file.text)) >= 1
                  /\ Len(CsvRows(file.text)) <= Len(inv[p])

C8_Witness ==
    \E p \in procs :
        /\ pc[p] = "done" /\ err[p] = "ValueError"
        /\ file # file0
        /\ Len(CsvRows(file.text)) = 2
        /\ Len(inv[p]) = 3

\* C6: two invocations are not coordinated.  When both loaded the file
\* before either opened it for writing and one saved after the other, both
\* print the confirmation and exit 0, and the file holds the loaded rows and
\* the later writer's device only.
C6_LastWriterWins ==
    \A p \in procs : \A q \in procs \ {p} :
        (/\ out[p].msg = "added and saved" /\ out[q].msg = "added and saved"
         /\ order[p].sawInitial /\ order[q].sawInitial
         /\ p \in order[q].closedAtOpen)
        => /\ exitcode[p] = 0 /\ exitcode[q] = 0
           /\ CsvRows(file.text)
                 = ExpectedRows(Append(ReadCSV(file0.text), args[q].device))

C6_Witness ==
    \E p \in procs : \E q \in procs \ {p} :
        /\ out[p].msg = "added and saved" /\ out[q].msg = "added and saved"
        /\ order[p].sawInitial /\ order[q].sawInitial
        /\ p \in order[q].closedAtOpen
        /\ args[p].device # args[q].device
        /\ Len(ReadCSV(file0.text)) >= 1
        /\ \A i \in 1..Len(CsvRows(file.text)) :
              CsvRows(file.text)[i] # Cells(args[p].device)

====
